---- MODULE Spec2Model ----
(***************************************************************************)
(* The two provisioning scripts of the repository as one state machine:    *)
(*   provision_ubuntu_20_04.py       (script = "ubuntu")                   *)
(*   provision_multiple_distros.py   (script = "multi")                    *)
(* A run is a record (program position, installer attributes, working     *)
(* directory, commands issued through run_command, log files).  `run` is   *)
(* the run under arbitrary command exit codes; `ref` is the same run fed   *)
(* the same user inputs and probe results with every exit code 0.          *)
(***************************************************************************)
EXTENDS Integers, Sequences, FiniteSets, TLC

VARIABLES script, euid, os_release, run, ref

vars == <<script, euid, os_release, run, ref>>
env  == <<script, euid, os_release>>

----------------------------------------------------------------------------
(* Values the environment can supply *)

Scripts   == {"ubuntu", "multi"}
Euids     == {0, 1000}
ExitCodes == {0, 1}
Running   == -1
None      == 0

Home      == <<"root">>
StartDirs == {Home, <<"srv">>}
log_file  == "docker-script-install.log"

NoOsRelease == [exists |-> FALSE, ID |-> "", VERSION_ID |-> ""]
OsReleases ==
    {NoOsRelease} \cup
    { [exists |-> TRUE, ID |-> i, VERSION_ID |-> v] :
        i \in {"ubuntu", "Ubuntu", "debian"}, v \in {"\"20.04\"", ""} }

(* str.lower() and str.strip('"') on the strings that occur *)
Lower(s) ==
    CASE s = "Ubuntu" -> "ubuntu"
      [] s = "Y"      -> "y"
      [] s = "N"      -> "n"
      [] OTHER        -> s

StripQuotes(s) ==
    CASE s = "\"20.04\"" -> "20.04"
      [] OTHER           -> s

----------------------------------------------------------------------------
(* Command strings passed to run_command *)

APT_UPDATE      == "apt update && apt upgrade -y"
APT_PREREQ      == "apt install curl wget git -y"
GET_DOCKER      == "curl -fsSL https://get.docker.com | sh"
USERMOD         == "usermod -aG docker $USER"
START_DOCKER    == "systemctl start docker"
ENABLE_DOCKER   == "systemctl enable docker"
APT_COMPOSE     == "apt install docker-compose -y"
YUM_UPDATE      == "yum check-update"
DNF_PREREQ      == "dnf install git curl wget -y"
GET_DOCKER_YUM  == "curl -fsSL https://get.docker.com/ | sh"
CURL_COMPOSE    == "curl -L docker-compose-1.23.2 -o /usr/local/bin/docker-compose"
CHMOD_COMPOSE   == "chmod +x /usr/local/bin/docker-compose"
PACMAN_UPDATE   == "pacman -Syu"
PACMAN_PREREQ   == "pacman -Sy git curl wget"
PACMAN_COMPOSE  == "pacman -Sy docker-compose"
CURL_NPM        == "curl docker_compose.nginx_proxy_manager.yml -o docker-compose.yml"
CURL_NAVIDROME  == "curl docker_compose_navidrome.yml -o docker-compose.yml"
COMPOSE_UP      == "docker-compose up -d"
VOLUME_CREATE   == "docker volume create portainer_data"
RUN_PORTAINER   == "docker run -d --name=portainer portainer/portainer-ce"
RUN_AGENT       == "docker run -d --name portainer_agent portainer/agent"

NPM_DIR         == <<"docker", "nginx-proxy-manager">>
NAVIDROME_DIR   == <<"docker", "navidrome">>

MaxRetries      == 30

----------------------------------------------------------------------------
(* The state of one run *)

InitRun(dir) ==
    [ pc                     |-> "__main__",
      exitCode               |-> Running,
      crashed                |-> FALSE,
      cwd                    |-> dir,
      cmds                   |-> <<>>,
      effects                |-> <<>>,
      logs                   |-> <<>>,
      made                   |-> {},
      calls                  |-> <<>>,
      nonzero                |-> FALSE,
      \* DockerInstaller.__init__
      os_choice              |-> None,
      install_docker         |-> FALSE,
      install_docker_compose |-> FALSE,
      install_npm            |-> FALSE,
      install_navidrome      |-> FALSE,
      install_portainer      |-> FALSE,
      portainer_choice       |-> None,
      \* readiness wait
      retries                |-> 0,
      sleeps                 |-> 0,
      probes                 |-> 0,
      firstTrue              |-> 0,
      lastProbe              |-> "none",
      \* observations
      probeTimeActive        |-> "unknown",
      probeTimeCompose       |-> "unknown",
      activeAfterBootstrap   |-> FALSE,
      callCwd                |-> <<>>,
      returned               |-> "" ]

Init ==
    /\ script \in Scripts
    /\ euid \in Euids
    /\ os_release \in (IF script = "ubuntu" THEN OsReleases ELSE {NoOsRelease})
    /\ \E dir \in StartDirs : run = InitRun(dir) /\ ref = run

----------------------------------------------------------------------------
(* Library calls *)

\* sys.exit(code)
Exit(st, code) == [st EXCEPT !.pc = "done", !.exitCode = code]

\* an uncaught exception: traceback, interpreter exit status 1
Uncaught(st) == [Exit(st, 1) EXCEPT !.crashed = TRUE]

Calling(st, name) == [st EXCEPT !.calls = Append(@, name)]

Goto(st, label) == [st EXCEPT !.pc = label]

\* open(log_file, 'a') resolves the relative name against the working directory
LogPath(st) == st.cwd \o <<log_file>>

\* open(path, 'w') instead of 'a': earlier content is lost
AppendToFile_truncating(files, path, line) ==
    IF \E i \in DOMAIN files : files[i].path = path
    THEN [i \in DOMAIN files |->
            IF files[i].path = path
            THEN [files[i] EXCEPT !.content = <<line>>]
            ELSE files[i]]
    ELSE Append(files, [path |-> path, content |-> <<line>>])

\* the file at `path` gets `line` appended; created when absent
AppendToFile(files, path, line) ==
    IF \E i \in DOMAIN files : files[i].path = path
    THEN [i \in DOMAIN files |->
            IF files[i].path = path
            THEN [files[i] EXCEPT !.content = Append(@, line)]
            ELSE files[i]]
    ELSE Append(files, [path |-> path, content |-> <<line>>])

run_command(st, command, rc) ==
    [st EXCEPT !.cmds    = Append(@, command),
               !.effects = Append(@, <<"run", command>>),
               !.logs    = AppendToFile(@, LogPath(st), command),
               !.nonzero = @ \/ (rc # 0)]

\* os.makedirs(rel, exist_ok=True)
makedirs(st, rel) ==
    [st EXCEPT !.made    = @ \cup {st.cwd \o SubSeq(rel, 1, n) : n \in 1..Len(rel)},
               !.effects = Append(@, <<"makedirs", st.cwd \o rel>>)]

\* os.chdir(rel) for a relative path, os.chdir(os.path.expanduser("~"))
chdir(st, rel) ==
    [st EXCEPT !.cwd = @ \o rel, !.effects = Append(@, <<"chdir", st.cwd \o rel>>)]
chdir_home(st) ==
    [st EXCEPT !.cwd = Home, !.effects = Append(@, <<"chdir", Home>>)]

check_ubuntu_version_any_id ==
    IF ~os_release.exists THEN "" ELSE StripQuotes(os_release.VERSION_ID)

check_ubuntu_version ==
    IF ~os_release.exists THEN ""
    ELSE IF Lower(os_release.ID) = "ubuntu"
         THEN StripQuotes(os_release.VERSION_ID)
         ELSE ""

----------------------------------------------------------------------------
(* One step of both runs: `run` with the exit codes rcs, `ref` (while it is *)
(* at the same position) with the same inputs and every exit code 0.       *)

Zero(rcs) == [i \in DOMAIN rcs |-> 0]

Step(new, new0) ==
    /\ run' = new
    /\ ref' = IF ref.pc = run.pc THEN new0 ELSE ref
    /\ UNCHANGED env

NoRc == <<>>

----------------------------------------------------------------------------
(* provision_ubuntu_20_04.py *)

install_docker_packages(st, active, compose, rcs) ==
    LET s1 == run_command(st, APT_UPDATE, rcs[1])
        s2 == run_command(s1, APT_PREREQ, rcs[2])
        s3 == [s2 EXCEPT !.probeTimeActive  = IF active THEN "active" ELSE "inactive",
                         !.probeTimeCompose = IF compose THEN "installed" ELSE "missing"]
        s4 == IF ~active
              THEN run_command(run_command(run_command(run_command(s3,
                       GET_DOCKER, rcs[3]), USERMOD, rcs[4]),
                       START_DOCKER, rcs[5]), ENABLE_DOCKER, rcs[6])
              ELSE s3
    IN  IF ~compose THEN run_command(s4, APT_COMPOSE, rcs[7]) ELSE s4

install_nginx_proxy_manager_checked(st, rcs) ==
    LET s0 == [st EXCEPT !.callCwd = st.cwd, !.returned = ""]
        s1 == makedirs(s0, NPM_DIR)
        s2 == chdir(s1, NPM_DIR)
        s3 == run_command(s2, CURL_NPM, rcs[1])
        s4 == IF rcs[1] # 0 THEN s3 ELSE run_command(s3, COMPOSE_UP, rcs[2])
        s5 == chdir_home(s4)
    IN  [s5 EXCEPT !.returned = "install_nginx_proxy_manager"]

install_nginx_proxy_manager(st, rcs) ==
    LET s0 == [st EXCEPT !.callCwd = st.cwd, !.returned = ""]
        s1 == makedirs(s0, NPM_DIR)
        s2 == chdir(s1, NPM_DIR)
        s3 == run_command(s2, CURL_NPM, rcs[1])
        s4 == run_command(s3, COMPOSE_UP, rcs[2])
        s5 == chdir_home(s4)
    IN  [s5 EXCEPT !.returned = "install_nginx_proxy_manager"]

install_portainer(st, rcs) ==
    LET s1 == run_command(st, VOLUME_CREATE, rcs[1])
    IN  run_command(s1, RUN_PORTAINER, rcs[2])

\* while not is_docker_active() and retries < 30
WaitContinues_inclusive(active, retries) == ~active /\ retries <= MaxRetries

WaitContinues_ignores_probe(active, retries) == retries < MaxRetries

WaitContinues(active, retries) == ~active /\ retries < MaxRetries

\* if not is_docker_active(): sys.exit(1)
WaitFailed_unchecked(active) == FALSE

WaitFailed(active) == ~active

\* one is_docker_active() call of the readiness wait and its result
Probed(st, active) ==
    [st EXCEPT !.probes    = @ + 1,
               !.firstTrue = IF active /\ @ = 0 THEN st.probes + 1 ELSE @,
               !.lastProbe = IF active THEN "active" ELSE "inactive"]

CheckRoot ==
    /\ run.pc = "__main__"
    /\ LET F(st, r) ==
              IF euid # 0 THEN Exit(Calling(st, "geteuid"), 1)
              ELSE Goto(Calling(st, "geteuid"), "main")
       IN  Step(F(run, NoRc), F(ref, Zero(NoRc)))

UbuntuCheckVersion ==
    /\ script = "ubuntu"
    /\ run.pc = "main"
    /\ LET F(st, r) ==
              IF check_ubuntu_version = ""
              THEN Exit(Calling(st, "check_ubuntu_version"), 1)
              ELSE Goto(Calling(st, "check_ubuntu_version"), "install_docker_packages")
       IN  Step(F(run, NoRc), F(ref, Zero(NoRc)))

UbuntuInstallDockerPackages ==
    /\ run.pc = "install_docker_packages"
    /\ \E active, compose \in BOOLEAN, rcs \in [1..7 -> ExitCodes] :
         LET F(st, r) ==
                Goto(install_docker_packages(Calling(st, "install_docker_packages"),
                                             active, compose, r), "wait")
         IN  Step(F(run, rcs), F(ref, Zero(rcs)))

UbuntuWaitLoop ==
    /\ run.pc = "wait"
    /\ \E active \in BOOLEAN :
         LET F(st, r) ==
                IF WaitContinues(active, st.retries)
                THEN Goto(Probed(st, active), "sleep")
                ELSE Goto(Probed(st, active), "check")
         IN  Step(F(run, NoRc), F(ref, Zero(NoRc)))

UbuntuWaitSleep ==
    /\ run.pc = "sleep"
    /\ LET F(st, r) ==
              Goto([st EXCEPT !.sleeps = @ + 1, !.retries = @ + 1], "wait")
       IN  Step(F(run, NoRc), F(ref, Zero(NoRc)))

UbuntuWaitCheck ==
    /\ run.pc = "check"
    /\ \E active \in BOOLEAN :
         LET F(st, r) ==
                IF WaitFailed(active) THEN Exit(Probed(st, active), 1)
                ELSE Goto([Probed(st, active) EXCEPT !.activeAfterBootstrap = TRUE],
                          "install_nginx_proxy_manager")
         IN  Step(F(run, NoRc), F(ref, Zero(NoRc)))

UbuntuInstallNPM ==
    /\ script = "ubuntu"
    /\ run.pc = "install_nginx_proxy_manager"
    /\ \E rcs \in [1..2 -> ExitCodes] :
         LET F(st, r) ==
                Goto(install_nginx_proxy_manager(
                       Calling(st, "install_nginx_proxy_manager"), r),
                     "install_portainer")
         IN  Step(F(run, rcs), F(ref, Zero(rcs)))

UbuntuInstallPortainer ==
    /\ script = "ubuntu"
    /\ run.pc = "install_portainer"
    /\ \E rcs \in [1..2 -> ExitCodes] :
         LET F(st, r) ==
                Goto(install_portainer(Calling(st, "install_portainer"), r),
                     "complete")
         IN  Step(F(run, rcs), F(ref, Zero(rcs)))

----------------------------------------------------------------------------
(* provision_multiple_distros.py *)

\* int(input(...)): the number, or ValueError for a non-number
IsInt(s) == s \in {"1", "2", "3", "4", "5", "6", "7"}
IntOf(s) ==
    CASE s = "1" -> 1 [] s = "2" -> 2 [] s = "3" -> 3 [] s = "4" -> 4
      [] s = "5" -> 5 [] s = "6" -> 6 [] s = "7" -> 7

MenuInputs   == {"1", "2", "3", "4", "5", "6", "7", "x"}
ChoiceInputs == {"1", "2", "3", "4", ""}
Answers      == {"y", "Y", "n"}

\* input(...).lower() == 'y'
Yes(answer) == Lower(answer) = "y"

\* the names __init__ binds on the instance; an instance attribute hides the
\* method of the same name, and calling a bool raises TypeError
InstanceAttrs ==
    {"os_choice", "install_docker", "install_docker_compose", "install_npm",
     "install_navidrome", "install_portainer", "portainer_choice"}

CallMethod(name, st, result) ==
    IF name \in InstanceAttrs THEN Uncaught(st) ELSE result

prompt_installations_always_asks(st, active, compose, answers) ==
    [st EXCEPT
       !.probeTimeActive        = IF active THEN "active" ELSE "inactive",
       !.probeTimeCompose       = IF compose THEN "installed" ELSE "missing",
       !.install_docker         = Yes(answers[1]),
       !.install_docker_compose = IF ~compose THEN Yes(answers[2]) ELSE @,
       !.install_npm            = Yes(answers[3]),
       !.install_navidrome      = Yes(answers[4]),
       !.install_portainer      = Yes(answers[5])]

\* lines 80-92 of prompt_installations; answers of questions not asked are unused
prompt_installations(st, active, compose, answers) ==
    [st EXCEPT
       !.probeTimeActive        = IF active THEN "active" ELSE "inactive",
       !.probeTimeCompose       = IF compose THEN "installed" ELSE "missing",
       !.install_docker         = IF ~active THEN Yes(answers[1]) ELSE @,
       !.install_docker_compose = IF ~compose THEN Yes(answers[2]) ELSE @,
       !.install_npm            = Yes(answers[3]),
       !.install_navidrome      = Yes(answers[4]),
       !.install_portainer      = Yes(answers[5])]

install_debian_ubuntu_compose_first(st, rcs) ==
    LET s1 == run_command(st, APT_UPDATE, rcs[1])
        s2 == run_command(s1, APT_PREREQ, rcs[2])
        s3 == IF st.install_docker_compose
              THEN run_command(s2, APT_COMPOSE, rcs[5]) ELSE s2
    IN  IF st.install_docker
        THEN run_command(run_command(s3, GET_DOCKER, rcs[3]), USERMOD, rcs[4])
        ELSE s3

install_debian_ubuntu_always_runtime(st, rcs) ==
    LET s1 == run_command(st, APT_UPDATE, rcs[1])
        s2 == run_command(s1, APT_PREREQ, rcs[2])
        s3 == run_command(run_command(s2, GET_DOCKER, rcs[3]), USERMOD, rcs[4])
    IN  IF st.install_docker_compose THEN run_command(s3, APT_COMPOSE, rcs[5]) ELSE s3

install_debian_ubuntu(st, rcs) ==
    LET s1 == run_command(st, APT_UPDATE, rcs[1])
        s2 == run_command(s1, APT_PREREQ, rcs[2])
        s3 == IF st.install_docker
              THEN run_command(run_command(s2, GET_DOCKER, rcs[3]), USERMOD, rcs[4])
              ELSE s2
    IN  IF st.install_docker_compose THEN run_command(s3, APT_COMPOSE, rcs[5]) ELSE s3

install_centos(st, rcs) ==
    LET s1 == IF st.install_docker
              THEN run_command(run_command(run_command(run_command(run_command(st,
                       YUM_UPDATE, rcs[1]), DNF_PREREQ, rcs[2]),
                       GET_DOCKER_YUM, rcs[3]), START_DOCKER, rcs[4]),
                       ENABLE_DOCKER, rcs[5])
              ELSE st
    IN  IF st.install_docker_compose
        THEN run_command(run_command(s1, CURL_COMPOSE, rcs[6]), CHMOD_COMPOSE, rcs[7])
        ELSE s1

install_arch(st, answer, rcs) ==
    LET s1 == IF Yes(answer) THEN run_command(st, PACMAN_UPDATE, rcs[1]) ELSE st
        s2 == run_command(s1, PACMAN_PREREQ, rcs[2])
        s3 == IF st.install_docker THEN run_command(s2, GET_DOCKER, rcs[3]) ELSE s2
    IN  IF st.install_docker_compose THEN run_command(s3, PACMAN_COMPOSE, rcs[4]) ELSE s3

\* DockerInstaller.install_portainer (the method)
multi_install_portainer(st, rcs) ==
    IF st.portainer_choice = 1
    THEN run_command(run_command(st, VOLUME_CREATE, rcs[1]), RUN_PORTAINER, rcs[2])
    ELSE IF st.portainer_choice = 2
    THEN run_command(run_command(st, VOLUME_CREATE, rcs[1]), RUN_AGENT, rcs[2])
    ELSE st

\* DockerInstaller.install_navidrome (the method)
install_navidrome(st, rcs) ==
    LET s0 == [st EXCEPT !.callCwd = st.cwd, !.returned = ""]
        s1 == makedirs(s0, NAVIDROME_DIR)
        s2 == chdir(s1, NAVIDROME_DIR)
        s3 == run_command(s2, CURL_NAVIDROME, rcs[1])
        s4 == run_command(s3, COMPOSE_UP, rcs[2])
        s5 == chdir_home(s4)
    IN  [s5 EXCEPT !.returned = "install_navidrome"]

MultiSystemInfo ==
    /\ script = "multi"
    /\ run.pc = "main"
    /\ LET F(st, r) == Goto(Calling(st, "get_system_info"), "os_menu")
         IN  Step(F(run, NoRc), F(ref, Zero(NoRc)))

MultiOsMenu ==
    /\ run.pc = "os_menu"
    /\ \E choice \in MenuInputs :
         LET F(st, r) ==
                IF IsInt(choice) /\ 1 <= IntOf(choice) /\ IntOf(choice) <= 6
                THEN IF IntOf(choice) = 6
                     THEN Exit([st EXCEPT !.os_choice = 6], 0)
                     ELSE Goto([st EXCEPT !.os_choice = IntOf(choice)],
                               "prompt_installations")
                ELSE st
         IN  Step(F(run, NoRc), F(ref, Zero(NoRc)))

MultiPromptInstallations ==
    /\ run.pc = "prompt_installations"
    /\ \E active, compose \in BOOLEAN, answers \in [1..5 -> Answers] :
         LET F(st, r) ==
                LET s1 == prompt_installations(Calling(st, "prompt_installations"),
                                               active, compose, answers)
                IN  Goto(s1, IF s1.install_portainer THEN "portainer_menu"
                                                     ELSE "bootstrap")
         IN  Step(F(run, NoRc), F(ref, Zero(NoRc)))

MultiPortainerMenu ==
    /\ run.pc = "portainer_menu"
    /\ \E choice \in ChoiceInputs :
         LET F(st, r) ==
                IF choice \in {"1", "2", "3"}
                THEN Goto([st EXCEPT !.portainer_choice = IntOf(choice)], "bootstrap")
                ELSE st
         IN  Step(F(run, NoRc), F(ref, Zero(NoRc)))

MultiInstallCentos ==
    /\ run.pc = "bootstrap"
    /\ run.os_choice = 1
    /\ \E rcs \in [1..7 -> ExitCodes] :
         LET F(st, r) ==
                Goto(install_centos(Calling(st, "install_centos"), r), "npm")
         IN  Step(F(run, rcs), F(ref, Zero(rcs)))

MultiInstallDebianUbuntu ==
    /\ run.pc = "bootstrap"
    /\ run.os_choice \in {2, 3, 4}
    /\ \E rcs \in [1..5 -> ExitCodes] :
         LET F(st, r) ==
                Goto(install_debian_ubuntu(Calling(st, "install_debian_ubuntu"), r),
                     "npm")
         IN  Step(F(run, rcs), F(ref, Zero(rcs)))

MultiInstallArch ==
    /\ run.pc = "bootstrap"
    /\ run.os_choice = 5
    /\ \E answer \in Answers, rcs \in [1..4 -> ExitCodes] :
         LET F(st, r) ==
                Goto(install_arch(Calling(st, "install_arch"), answer, r), "npm")
         IN  Step(F(run, rcs), F(ref, Zero(rcs)))

MultiNPM ==
    /\ run.pc = "npm"
    /\ \E rcs \in [1..2 -> ExitCodes] :
         LET F(st, r) ==
                IF st.install_npm
                THEN LET s1 == Calling(st, "install_nginx_proxy_manager")
                     IN  CallMethod("install_nginx_proxy_manager", s1,
                           Goto(install_nginx_proxy_manager(s1, r), "portainer"))
                ELSE Goto(st, "portainer")
         IN  Step(F(run, rcs), F(ref, Zero(rcs)))

MultiPortainer ==
    /\ run.pc = "portainer"
    /\ \E rcs \in [1..2 -> ExitCodes] :
         LET F(st, r) ==
                IF st.install_portainer /\ st.portainer_choice \in {1, 2}
                THEN LET s1 == Calling(st, "install_portainer")
                     IN  CallMethod("install_portainer", s1,
                           Goto(multi_install_portainer(s1, r), "navidrome"))
                ELSE Goto(st, "navidrome")
         IN  Step(F(run, rcs), F(ref, Zero(rcs)))

MultiNavidrome ==
    /\ run.pc = "navidrome"
    /\ \E rcs \in [1..2 -> ExitCodes] :
         LET F(st, r) ==
                IF st.install_navidrome
                THEN LET s1 == Calling(st, "install_navidrome")
                     IN  CallMethod("install_navidrome", s1,
                           Goto(install_navidrome(s1, r), "complete"))
                ELSE Goto(st, "complete")
         IN  Step(F(run, rcs), F(ref, Zero(rcs)))

Complete ==
    /\ run.pc = "complete"
    /\ LET F(st, r) == Exit(st, 0)
         IN  Step(F(run, NoRc), F(ref, Zero(NoRc)))

Next ==
    \/ CheckRoot
    \/ UbuntuCheckVersion
    \/ UbuntuInstallDockerPackages
    \/ UbuntuWaitLoop
    \/ UbuntuWaitSleep
    \/ UbuntuWaitCheck
    \/ UbuntuInstallNPM
    \/ UbuntuInstallPortainer
    \/ MultiSystemInfo
    \/ MultiOsMenu
    \/ MultiPromptInstallations
    \/ MultiPortainerMenu
    \/ MultiInstallCentos
    \/ MultiInstallDebianUbuntu
    \/ MultiInstallArch
    \/ MultiNPM
    \/ MultiPortainer
    \/ MultiNavidrome
    \/ Complete

Spec == Init /\ [][Next]_vars

----------------------------------------------------------------------------
(* Vocabulary of the properties *)

PrereqCmds         == {APT_PREREQ, DNF_PREREQ, PACMAN_PREREQ}
RuntimeInstallCmds == {GET_DOCKER, GET_DOCKER_YUM}
ComposeInstallCmds == {APT_COMPOSE, CURL_COMPOSE, PACMAN_COMPOSE}
CompanionCmds      == {CURL_NPM, CURL_NAVIDROME, COMPOSE_UP,
                       VOLUME_CREATE, RUN_PORTAINER, RUN_AGENT}

Issued(st, set) == \E i \in DOMAIN st.cmds : st.cmds[i] \in set

\* a companion install has begun: a directory was created or a command issued
CompanionStarted(st) == st.made # {} \/ Issued(st, CompanionCmds)

Before(st, A, B) ==
    \A i, j \in DOMAIN st.cmds :
        (st.cmds[i] \in A /\ st.cmds[j] \in B) => i < j

Ended(st) == st.pc = "done"

\* the run ended at the final check of the readiness wait (line 151)
AbortedByWait(st) ==
    script = "ubuntu" /\ Ended(st) /\ st.probes > 0 /\ st.lastProbe = "inactive"

PrivilegeFailed == euid # 0

\* the host of the Ubuntu script is not an Ubuntu system
Unsupported ==
    /\ script = "ubuntu"
    /\ ~os_release.exists \/ os_release.ID \notin {"ubuntu", "Ubuntu"}

\* the run ended at the distribution check (line 134)
DetectedUnsupported(st) ==
    /\ script = "ubuntu" /\ Ended(st)
    /\ Len(st.calls) = 2 /\ st.calls[2] = "check_ubuntu_version"

----------------------------------------------------------------------------
(* C1: with every probe of the readiness wait false, exactly 30 probes are *)
(* issued until the abort, at least 30 delays elapse, never a 31st probe.  *)
(* Stated as claimed; the code probes twice more.                          *)
C1_ThirtyProbes ==
    (script = "ubuntu" /\ run.firstTrue = 0) =>
        /\ run.probes <= MaxRetries
        /\ AbortedByWait(run) => (run.probes = MaxRetries /\ run.sleeps >= MaxRetries)

(* C1 as amended: with every probe false the wait issues exactly 32 probes *)
(* (30 each followed by a one-second delay, the probe that closes the loop *)
(* and the final check), 30 delays, and never a 33rd probe.                *)
C1_ThirtyTwoProbes ==
    (script = "ubuntu" /\ run.firstTrue = 0) =>
        /\ run.probes <= MaxRetries + 2
        /\ run.sleeps <= MaxRetries
        /\ AbortedByWait(run) =>
              (run.probes = MaxRetries + 2 /\ run.sleeps = MaxRetries)

C1_Witness == AbortedByWait(run) /\ run.firstTrue = 0 /\ run.exitCode = 1

(* C2: if the first 30 probes of the readiness wait are all false, the run *)
(* aborts with exit code 1 and no companion install is started.  Stated as *)
(* claimed; probes 31 and 32 can still let the run through.                *)
C2_FirstThirtyFalse ==
    (script = "ubuntu" /\ run.probes >= MaxRetries
        /\ (run.firstTrue = 0 \/ run.firstTrue > MaxRetries)) =>
        /\ ~CompanionStarted(run)
        /\ Ended(run) => run.exitCode = 1

(* C2 as amended: if all 32 probes of the readiness wait are false the run *)
(* has aborted with exit code 1, and a run aborted by the wait has started *)
(* no companion install.                                                   *)
C2_AllProbesFalse ==
    /\ (script = "ubuntu" /\ run.probes = MaxRetries + 2 /\ run.firstTrue = 0) =>
          (Ended(run) /\ run.exitCode = 1 /\ ~CompanionStarted(run))
    /\ AbortedByWait(run) => (run.exitCode = 1 /\ ~CompanionStarted(run))
    /\ (script = "ubuntu" /\ CompanionStarted(run)) => run.lastProbe = "active"

C2_Witness ==
    script = "ubuntu" /\ run.probes = MaxRetries + 2 /\ run.firstTrue = 0
        /\ Ended(run) /\ Len(run.cmds) > 0

(* C3: in both scripts no companion install starts unless a runtime-active *)
(* probe issued after the bootstrap has returned true.                     *)
C3_CompanionsGated == CompanionStarted(run) => run.activeAfterBootstrap

(* C4: when a companion install that changes directory returns, the        *)
(* working directory is the one that was current when it was called.       *)
C4_CwdRestored == run.returned # "" => run.cwd = run.callCwd

(* C5: every run_command call of a run appends to one and the same log     *)
(* file path.                                                              *)
C5_OneLogFile == Cardinality({run.logs[i].path : i \in DOMAIN run.logs}) <= 1

(* C6: in every family's bootstrap the prerequisite install comes strictly *)
(* before the runtime install and the runtime install strictly before the  *)
(* compose install, whenever both are issued.                              *)
C6_BootstrapOrder ==
    /\ Before(run, PrereqCmds, RuntimeInstallCmds)
    /\ Before(run, RuntimeInstallCmds, ComposeInstallCmds)
    /\ Before(run, PrereqCmds, ComposeInstallCmds)

C6_Witness ==
    /\ script = "multi" /\ run.os_choice \in {2, 3, 4} /\ run.pc = "npm"
    /\ Issued(run, PrereqCmds) /\ Issued(run, RuntimeInstallCmds)
    /\ Issued(run, ComposeInstallCmds)

(* C7: if the runtime-active probe returned true at probe time (prompt     *)
(* time in the multi-distro script, the bootstrap's check in the Ubuntu    *)
(* script), no runtime-install command is issued in the run.               *)
C7_NoReinstall ==
    run.probeTimeActive = "active" => ~Issued(run, RuntimeInstallCmds)

C7_Witness ==
    /\ script = "multi" /\ run.probeTimeActive = "active"
    /\ run.pc = "npm" /\ Len(run.cmds) > 0

(* C8: with a failed privilege check or an unsupported distribution the    *)
(* run ends with exit code 1 before any run_command call and before any    *)
(* log file exists, and the privilege check is the first thing done.       *)
C8_Preflight ==
    /\ (PrivilegeFailed \/ Unsupported) =>
          /\ run.cmds = <<>> /\ run.logs = <<>> /\ run.made = {}
          /\ run.pc \in {"__main__", "main", "done"}
          /\ Ended(run) => run.exitCode = 1
    /\ PrivilegeFailed => run.pc \in {"__main__", "done"}
    /\ run.calls # <<>> => run.calls[1] = "geteuid"
    /\ run.pc # "__main__" => run.calls # <<>>

C8_Witness ==
    Unsupported /\ euid = 0 /\ Ended(run) /\ run.exitCode = 1 /\ Len(run.calls) = 2

(* C9: a run that ends has exit code 0 or 1, and 1 exactly when the        *)
(* privilege check failed, the distribution is unsupported or the          *)
(* readiness wait failed.                                                  *)
C9_ExitCodes ==
    Ended(run) =>
        /\ run.exitCode \in {0, 1}
        /\ run.exitCode = 1 <=>
              (PrivilegeFailed \/ DetectedUnsupported(run) \/ AbortedByWait(run))

(* C10: whatever exit codes the commands return, the run issues the same   *)
(* commands, in the same order, as the run with the same inputs and probe  *)
(* results in which every command exits 0, and stops where that run stops. *)
C10_ExitCodesIgnored ==
    /\ ~ref.nonzero
    /\ run.cmds = ref.cmds
    /\ run.pc = ref.pc
    /\ run.exitCode = ref.exitCode

C10_Witness ==
    Ended(run) /\ run.nonzero /\ run.exitCode = 0 /\ Len(run.cmds) >= 4

\* the dashboard (Full or Agent) is part of the plan
DashboardSelected(st) == st.install_portainer /\ st.portainer_choice \in {1, 2}

DashboardCmds == {VOLUME_CREATE, RUN_PORTAINER, RUN_AGENT}

\* a multi-distro run in which no fatal condition and no early exit occurred
MultiRunEnded(st) ==
    script = "multi" /\ euid = 0 /\ Ended(st) /\ st.os_choice # 6

(* C11: in the multi-distro script, when no fatal condition occurs, every  *)
(* selected companion has its commands issued, in the order proxy manager, *)
(* dashboard, Navidrome, and the run completes normally (exit code 0).     *)
C11_SelectedCompanionsInstalled ==
    MultiRunEnded(run) =>
        /\ run.exitCode = 0
        /\ run.install_npm =>
              (Issued(run, {CURL_NPM}) /\ Issued(run, {COMPOSE_UP}))
        /\ DashboardSelected(run) =>
              /\ Issued(run, {VOLUME_CREATE})
              /\ run.portainer_choice = 1 => Issued(run, {RUN_PORTAINER})
              /\ run.portainer_choice = 2 => Issued(run, {RUN_AGENT})
        /\ run.install_navidrome => Issued(run, {CURL_NAVIDROME})
        /\ Before(run, {CURL_NPM}, DashboardCmds \cup {CURL_NAVIDROME})
        /\ Before(run, DashboardCmds, {CURL_NAVIDROME})

\* Debian/Ubuntu chosen, runtime active at prompt time, proxy manager selected,
\* no dashboard, and the proxy-manager step of main is over
ScenarioA(st) ==
    /\ script = "multi" /\ st.os_choice \in {2, 3, 4}
    /\ st.probeTimeActive = "active"
    /\ st.install_npm /\ ~DashboardSelected(st)
    /\ st.pc \in {"portainer", "navidrome", "complete", "done"}

ScenarioAEffects(st) ==
    LET dir == st.callCwd \o NPM_DIR
    IN  <<<<"run", APT_UPDATE>>, <<"run", APT_PREREQ>>>>
        \o (IF st.install_docker_compose THEN <<<<"run", APT_COMPOSE>>>> ELSE <<>>)
        \o <<<<"makedirs", dir>>, <<"chdir", dir>>, <<"run", CURL_NPM>>,
             <<"run", COMPOSE_UP>>, <<"chdir", Home>>>>

(* C12: Debian/Ubuntu, runtime already active, proxy manager selected, no  *)
(* dashboard: no runtime-install and no dashboard command is issued; the   *)
(* bootstrap issues the index refresh, the prerequisite step and (when     *)
(* selected) the compose step, then docker/nginx-proxy-manager/ is         *)
(* created, entered, the descriptor fetched and brought up, in that order. *)
C12_ScenarioA ==
    ScenarioA(run) =>
        /\ ~Issued(run, RuntimeInstallCmds \cup {USERMOD, START_DOCKER, ENABLE_DOCKER})
        /\ ~Issued(run, DashboardCmds)
        /\ run.effects = ScenarioAEffects(run)
        /\ run.callCwd \o NPM_DIR \in run.made

C12_Witness ==
    ScenarioA(run) /\ run.install_docker_compose /\ run.pc = "portainer"

IsPrefix(a, b) == Len(a) <= Len(b) /\ SubSeq(b, 1, Len(a)) = a

(* C13: every step of a run only appends to the log files: each file that  *)
(* exists before the step exists after it under the same path, and its     *)
(* content before is a prefix of its content after.                        *)
C13_AppendOnly ==
    [][\A i \in DOMAIN run.logs :
          /\ i \in DOMAIN run.logs'
          /\ run.logs'[i].path = run.logs[i].path
          /\ IsPrefix(run.logs[i].content, run.logs'[i].content)]_vars

C13_Witness ==
    \E i \in DOMAIN run.logs :
        Len(run.logs[i].content) >= 2 /\ Len(run.cmds) > Len(run.logs[i].content)

(* C14: once a probe of the readiness wait has returned true no further    *)
(* probe is issued and the run proceeds to the companion installs.  Stated *)
(* as claimed; the final check probes once more and can still abort.       *)
C14_FirstTrueDecides ==
    (script = "ubuntu" /\ run.firstTrue > 0) =>
        /\ run.probes = run.firstTrue
        /\ ~AbortedByWait(run)

(* C14 as amended: a true probe ends the wait loop at once, with no        *)
(* further delay; at most one more probe follows, the final check, and the *)
(* run proceeds to the companion installs when that check returns true     *)
(* and aborts with exit code 1 when it returns false.                      *)
C14_FinalCheckDecides ==
    (script = "ubuntu" /\ run.firstTrue > 0) =>
        /\ run.pc \notin {"wait", "sleep"}
        /\ run.probes <= run.firstTrue + 1
        /\ run.sleeps <= run.firstTrue - 1
        /\ run.pc # "check" =>
              /\ run.lastProbe = "active" =>
                    (~AbortedByWait(run) /\ run.activeAfterBootstrap
                        /\ (Ended(run) => run.exitCode = 0))
              /\ run.lastProbe = "inactive" =>
                    (AbortedByWait(run) /\ run.exitCode = 1
                        /\ run.probes = run.firstTrue + 1
                        /\ ~CompanionStarted(run))

C14_Witness ==
    script = "ubuntu" /\ run.firstTrue > 0 /\ run.firstTrue < MaxRetries
        /\ AbortedByWait(run)

\* prompt_installations has returned: the plan is built
PlanBuilt(st) == script = "multi" /\ st.pc = "bootstrap"

RuntimeAvailable(st) == st.install_docker \/ st.probeTimeActive = "active"
ComposeAvailable(st) == st.install_docker_compose \/ st.probeTimeCompose = "installed"

(* C15: in the plan built by prompt_installations, the proxy manager is    *)
(* selected only if compose is selected or already installed, and a        *)
(* dashboard mode only if runtime and compose are each selected or         *)
(* already present.                                                        *)
C15_PlanDependencies ==
    PlanBuilt(run) =>
        /\ run.install_npm => ComposeAvailable(run)
        /\ DashboardSelected(run) => (RuntimeAvailable(run) /\ ComposeAvailable(run))

(* C16: in every bootstrap, whenever the runtime-install command is        *)
(* issued, a command enabling the runtime as a persistent service is       *)
(* issued after it and before the compose install of that bootstrap.       *)
C16_RuntimeEnabled ==
    \A i \in DOMAIN run.cmds :
        run.cmds[i] \in RuntimeInstallCmds =>
            \E j \in DOMAIN run.cmds :
                /\ j > i
                /\ run.cmds[j] = ENABLE_DOCKER
                /\ \A k \in DOMAIN run.cmds :
                      run.cmds[k] \in ComposeInstallCmds => j < k

RefreshCmds == {APT_UPDATE, YUM_UPDATE, PACMAN_UPDATE}

BootstrapCalls ==
    {"install_docker_packages", "install_centos", "install_debian_ubuntu",
     "install_arch"}

\* the bootstrap of the run has been executed
BootstrapDone(st) == \E i \in DOMAIN st.calls : st.calls[i] \in BootstrapCalls

Count(st, set) == Cardinality({i \in DOMAIN st.cmds : st.cmds[i] \in set})

(* C17: every bootstrap, whatever the plan, issues the prerequisite        *)
(* install exactly once and, except on Arch, the package-index refresh     *)
(* before it.                                                              *)
C17_PrereqAlways ==
    BootstrapDone(run) =>
        /\ Count(run, PrereqCmds) = 1
        /\ run.os_choice # 5 =>
              (Issued(run, RefreshCmds) /\ Before(run, RefreshCmds, PrereqCmds))

\* the process is single-threaded and every external command and probe
\* returns: a step that can be taken is taken
LiveSpec == Spec /\ WF_vars(Next)

(* C18: every run of the Ubuntu script eventually ends, and its readiness  *)
(* wait performs at most 30 one-second delays whatever the probes return.  *)
C18_Terminates ==
    /\ [](script = "ubuntu" => (run.sleeps <= MaxRetries /\ run.retries <= MaxRetries))
    /\ (script = "ubuntu") ~> Ended(run)

C18_Witness ==
    script = "ubuntu" /\ Ended(run) /\ run.sleeps = MaxRetries

(* C19: in the multi-distro script, when the dashboard is selected and     *)
(* then option 3 is chosen, no dashboard or agent command is issued and    *)
(* the other selected companions are still installed.                      *)
C19_NevermindDashboard ==
    (MultiRunEnded(run) /\ run.install_portainer /\ run.portainer_choice = 3) =>
        /\ ~Issued(run, DashboardCmds)
        /\ run.install_npm =>
              (Issued(run, {CURL_NPM}) /\ Issued(run, {COMPOSE_UP}))
        /\ run.install_navidrome => Issued(run, {CURL_NAVIDROME})

====
